---- MODULE Spec2Model ----
(***************************************************************************)
(* A model of lgtm_crypto.cpp: ECDH key agreement, key derivation,         *)
(* GCM<AES> file encryption / decryption and SHA-512 file digests.         *)
(*                                                                         *)
(* Every exported function is one action that models the whole call.  The  *)
(* file system, the caller's key buffers and the outcome of the last call  *)
(* are the state.  The Crypto++ primitives are idealised: a digest or an   *)
(* authentication tag is the transcript of what it was computed over, so   *)
(* two of them agree exactly when their inputs agree.                      *)
(*                                                                         *)
(* A byte is a tuple of naturals: <<v>> is the plain byte v; byte i of a   *)
(* tag or digest is <<i, kind>> followed by the transcript.                *)
(***************************************************************************)
EXTENDS Integers, Sequences, FiniteSets, TLC

VARIABLES
    fs,      \* file name -> [exists, data]
    call,    \* the last call: arguments, the files as it found them, outcome
    trace,   \* the Crypto++ operations the last call performed, in order
    enc,     \* the last encryptFile call that returned
    bufs,    \* the callers' SecByteBlock buffers, per party
    made,    \* digest file name -> the createHash* call that wrote it
    calls    \* how many calls have been made so far

vars == <<fs, call, trace, enc, bufs, made, calls>>

-----------------------------------------------------------------------------
(* Program and library constants *)

MAC_SIZE == 12
BLOCKSIZE == 16
SHA256_DIGESTSIZE == 32
SHA512_DIGESTSIZE == 64
PublicKeyLength == 65
PrivateKeyLength == 32
AgreedValueLength == 32

(* Bounds of the model *)

MaxLen == 2          \* longest plaintext, in bytes
MaxAadLen == 1       \* longest associated-data file, in bytes
MaxFileLen == 2      \* longest file given to the digest functions
MaxCipherCalls == 2  \* calls of encryptFile / decryptFile in one run
MaxDigestCalls == 2  \* calls of the digest functions in one run
MaxKeyCalls == 5     \* calls in one run of the key-agreement chain

\* the byte values the callers' files and buffers are filled with
ByteVals == {0, 1}

-----------------------------------------------------------------------------
(* Files *)

CipherFiles == {"plain", "auth", "cipher", "out"}
DigestFiles == {"a", "b", "h1", "h2"}
FileNames == CipherFiles \cup DigestFiles

NoFile == [exists |-> FALSE, data |-> <<>>]
File(bytes) == [exists |-> TRUE, data |-> bytes]

\* ifstream(name) / FileSource(name): the empty name never opens
Open(name) == IF name \in DOMAIN fs THEN fs[name] ELSE NoFile

RECURSIVE SeqsUpTo(_, _)
SeqsUpTo(S, n) ==
    IF n = 0 THEN {<<>>}
    ELSE LET shorter == SeqsUpTo(S, n - 1)
         IN shorter \cup {Append(s, x) : s \in {t \in shorter : Len(t) = n - 1}, x \in S}

SeqsOfLen(S, n) == {s \in SeqsUpTo(S, n) : Len(s) = n}

PlainBytes == {<<v>> : v \in ByteVals}

\* what an ordinary file can hold
Contents(n) == SeqsUpTo(PlainBytes, n)

\* new byte[n] that is never written: any n bytes
Uninitialized(n) == SeqsOfLen(PlainBytes, n)

RECURSIVE Flat(_)
\* a byte sequence as one tuple of naturals, each byte prefixed by its width
Flat(bytes) ==
    IF bytes = <<>> THEN <<>>
    ELSE <<Len(Head(bytes))>> \o Head(bytes) \o Flat(Tail(bytes))

-----------------------------------------------------------------------------
(* SecByteBlock: size in bytes and the value held *)

Block(n, v) == [size |-> n, val |-> v]
EmptyBlock == Block(0, <<>>)

\* AES accepts 16, 24 and 32 byte keys; SetKeyWithIV throws InvalidKeyLength otherwise
ValidKeyLength(n) == n \in {16, 24, 32}

\* SetKeyWithIV(key, key.size(), ivBytes, AES::BLOCKSIZE) reads BLOCKSIZE bytes
\* through the pointer, whatever the length of the caller's buffer
ReadIV(ivBytes, beyond) ==
    [i \in 1..BLOCKSIZE |-> IF i <= Len(ivBytes) THEN ivBytes[i] ELSE beyond[i - Len(ivBytes)]]

\* the bytes that lie behind a buffer shorter than BLOCKSIZE
Beyond(ivBytes) ==
    IF Len(ivBytes) >= BLOCKSIZE THEN {<<>>}
    ELSE SeqsOfLen(ByteVals, BLOCKSIZE - Len(ivBytes))

-----------------------------------------------------------------------------
(* GCM<AES> *)

RECURSIVE Xor(_, _, _)
\* bitwise exclusive or of two n-bit naturals
Xor(a, b, n) ==
    IF n = 0 THEN 0
    ELSE (((a % 2) + (b % 2)) % 2) + (2 * Xor(a \div 2, b \div 2, n - 1))

RECURSIVE Sum(_)
Sum(s) == IF s = <<>> THEN 0 ELSE Head(s) + Sum(Tail(s))

\* byte i of the counter-mode key stream
KeyStream(key, iv, i) == (7 * Sum(key.val) + 3 * Sum(iv) + 5 * i + iv[1]) % 256

XorByte(b, k) == IF Len(b) = 1 THEN <<Xor(b[1], k, 8)>> ELSE <<Xor(Sum(b) % 256, k, 8)>>

\* counter mode: the same transformation encrypts and decrypts
GcmProcessData(key, iv, data) ==
    [i \in 1..Len(data) |-> XorByte(data[i], KeyStream(key, iv, i))]

\* the MAC_SIZE byte tag over the associated data and the ciphertext
GcmTag(key, iv, aad, ciphertext) ==
    [i \in 1..MAC_SIZE |->
        <<i, 1, key.size, Len(key.val)>> \o key.val \o iv
            \o <<Len(aad)>> \o Flat(aad) \o Flat(ciphertext)]

-----------------------------------------------------------------------------
(* The filters' channels *)

Put(channel, data) == [op |-> "ChannelPut", channel |-> channel, data |-> data]
End(channel) == [op |-> "ChannelMessageEnd", channel |-> channel, data |-> <<>>]
Prim(name) == [op |-> name, channel |-> "", data |-> <<>>]

RECURSIVE ChannelData(_, _)
\* everything put on a channel, in the order it was put
ChannelData(ops, channel) ==
    IF ops = <<>> THEN <<>>
    ELSE (IF Head(ops).op = "ChannelPut" /\ Head(ops).channel = channel
          THEN Head(ops).data ELSE <<>>) \o ChannelData(Tail(ops), channel)

\* AuthenticatedEncryptionFilter(encrypt, sink, false, MAC_SIZE): ciphertext, then tag
EncryptionFilterOutput(key, iv, ops) ==
    LET aad == ChannelData(ops, "AAD")
        ciphertext == GcmProcessData(key, iv, ChannelData(ops, "DEFAULT"))
    IN ciphertext \o GcmTag(key, iv, aad, ciphertext)

\* AuthenticatedDecryptionFilter(..., MAC_AT_BEGIN | THROW_EXCEPTION, MAC_SIZE):
\* the first MAC_SIZE bytes of the default channel are the tag, the rest ciphertext
DecryptionFilterTag(ops) == SubSeq(ChannelData(ops, "DEFAULT"), 1, MAC_SIZE)
DecryptionFilterCiphertext(ops) ==
    LET all == ChannelData(ops, "DEFAULT") IN SubSeq(all, MAC_SIZE + 1, Len(all))

DecryptionFilterVerified(key, iv, ops) ==
    DecryptionFilterTag(ops) =
        GcmTag(key, iv, ChannelData(ops, "AAD"), DecryptionFilterCiphertext(ops))

DecryptionFilterRetrievable(key, iv, ops) ==
    GcmProcessData(key, iv, DecryptionFilterCiphertext(ops))

-----------------------------------------------------------------------------
(* The record of a call *)

\* in: the input file names; found: those files as the call found them;
\* authFound, outBefore: the associated-data and output file before the call;
\* party, blocks, bufBefore: for the key functions, whose buffers they are,
\* the SecByteBlocks read and the output buffer before the call
Call(op, in, auth, out, key, ivBytes, outcome, error, value, warned) ==
    [op |-> op, in |-> in, auth |-> auth, out |-> out, key |-> key,
     ivBytes |-> ivBytes, outcome |-> outcome, error |-> error, value |-> value,
     warned |-> warned,
     found |-> [i \in 1..Len(in) |-> Open(in[i])],
     authFound |-> Open(auth), outBefore |-> Open(out),
     party |-> "", blocks |-> <<key>>, bufBefore |-> EmptyBlock]

NoCall == [op |-> "none", in |-> <<>>, auth |-> "", out |-> "", key |-> EmptyBlock,
           ivBytes |-> <<>>, outcome |-> "none", error |-> "", value |-> FALSE,
           warned |-> FALSE, found |-> <<>>, authFound |-> NoFile,
           outBefore |-> NoFile, party |-> "", blocks |-> <<>>,
           bufBefore |-> EmptyBlock]

NoEnc == [done |-> FALSE, plain |-> <<>>, auth |-> NoFile, key |-> EmptyBlock,
          ivBytes |-> <<>>, output |-> <<>>]

-----------------------------------------------------------------------------
(* encryptFile, lines 103-160 *)

encryptFile(inputFileName, authInputFileName, outputFileName, key, ivBytes) ==
    \E beyond \in Beyond(ivBytes) :
        LET iv == ReadIV(ivBytes, beyond)
            auth == Open(authInputFileName)
            input == Open(inputFileName)
            sunk == [fs EXCEPT ![outputFileName] = File(<<>>)]
            aadOps == IF auth.exists
                      THEN <<Put("AAD", auth.data), End("AAD")>> ELSE <<>>
            ops == <<Prim("SetKeyWithIV")>> \o aadOps
                     \o <<Put("DEFAULT", input.data), End("DEFAULT")>>
            output == EncryptionFilterOutput(key, iv, ops)
        IN  IF ~ValidKeyLength(key.size)
            THEN /\ call' = Call("encryptFile", <<inputFileName>>, authInputFileName,
                                 outputFileName, key, ivBytes, "threw",
                                 "InvalidKeyLength", FALSE, FALSE)
                 /\ trace' = <<>>
                 /\ UNCHANGED <<fs, enc, bufs, made>>
            ELSE IF ~input.exists
            THEN /\ call' = Call("encryptFile", <<inputFileName>>, authInputFileName,
                                 outputFileName, key, ivBytes, "exit",
                                 "open", FALSE, ~auth.exists)
                 /\ trace' = <<Prim("SetKeyWithIV")>> \o aadOps
                 /\ fs' = sunk
                 /\ UNCHANGED <<enc, bufs, made>>
            ELSE /\ call' = Call("encryptFile", <<inputFileName>>, authInputFileName,
                                 outputFileName, key, ivBytes, "returned",
                                 "", TRUE, ~auth.exists)
                 /\ trace' = ops
                 /\ fs' = [sunk EXCEPT ![outputFileName] = File(output)]
                 /\ enc' = [done |-> TRUE, plain |-> input.data, auth |-> auth,
                            key |-> key, ivBytes |-> ivBytes, output |-> output]
                 /\ UNCHANGED <<bufs, made>>

\* lines 88-91
encryptFileNoAuth(inputFileName, outputFileName, key, ivBytes) ==
    encryptFile(inputFileName, "", outputFileName, key, ivBytes)

-----------------------------------------------------------------------------
(* decryptFile, lines 187-288 *)

decryptFile(inputFileName, authInputFileName, outputFileName, key, ivBytes) ==
    \E beyond \in Beyond(ivBytes) :
        LET iv == ReadIV(ivBytes, beyond)
            input == Open(inputFileName)
            auth == Open(authInputFileName)
            fileLength == Len(input.data)
            encryptedDataLength == fileLength - MAC_SIZE
            encryptedData == SubSeq(input.data, 1, encryptedDataLength)
            macData == SubSeq(input.data, encryptedDataLength + 1, fileLength)
            Failed(outcome, error, ops) ==
                /\ call' = Call("decryptFile", <<inputFileName>>, authInputFileName,
                                outputFileName, key, ivBytes, outcome, error,
                                FALSE, FALSE)
                /\ trace' = ops
                /\ UNCHANGED <<fs, enc, bufs, made>>
        IN  IF ~ValidKeyLength(key.size)
            THEN Failed("threw", "InvalidKeyLength", <<>>)
            ELSE IF ~input.exists
            THEN Failed("exit", "open", <<Prim("SetKeyWithIV")>>)
            ELSE IF encryptedDataLength < 1
            THEN Failed("exit", "length", <<Prim("SetKeyWithIV")>>)
            ELSE
              \* line 242 reads from inputStream, closed at line 223, and not from
              \* authInputStream: authInputData keeps what new byte[] handed out
              \E authInputData \in Uninitialized(Len(auth.data)) :
                LET aadOps == IF auth.exists
                              THEN <<Put("AAD", authInputData), End("AAD")>> ELSE <<>>
                    ops == <<Prim("SetKeyWithIV"), Put("DEFAULT", macData)>> \o aadOps
                             \o <<Put("DEFAULT", encryptedData),
                                  End("AAD"), End("DEFAULT")>>
                    retrievedData == DecryptionFilterRetrievable(key, iv, ops)
                IN  /\ trace' = ops
                    /\ IF DecryptionFilterVerified(key, iv, ops)
                       THEN /\ call' = Call("decryptFile", <<inputFileName>>,
                                            authInputFileName, outputFileName, key,
                                            ivBytes, "returned", "", TRUE, ~auth.exists)
                            /\ fs' = [fs EXCEPT ![outputFileName] = File(retrievedData)]
                       ELSE /\ call' = Call("decryptFile", <<inputFileName>>,
                                            authInputFileName, outputFileName, key,
                                            ivBytes, "threw", "HashVerificationFailed",
                                            FALSE, ~auth.exists)
                            /\ UNCHANGED fs
                    /\ UNCHANGED <<enc, bufs, made>>

\* lines 172-175
decryptFileNoAuth(inputFileName, outputFileName, key, ivBytes) ==
    decryptFile(inputFileName, "", outputFileName, key, ivBytes)

-----------------------------------------------------------------------------
(* SHA-512 digests of files, lines 290-434 *)

\* the n byte digest of a message
Sha(n, message) == [i \in 1..n |-> <<i, 2, n>> \o Flat(message)]

\* HashVerificationFilter(hash, NULL, THROW_EXCEPTION | HASH_AT_END): the last
\* DIGESTSIZE bytes of the stream are the digest of what precedes them
HashVerified(stream) ==
    /\ Len(stream) >= SHA512_DIGESTSIZE
    /\ SubSeq(stream, Len(stream) - SHA512_DIGESTSIZE + 1, Len(stream))
         = Sha(SHA512_DIGESTSIZE, SubSeq(stream, 1, Len(stream) - SHA512_DIGESTSIZE))

NoMade == [by |-> "none", files |-> <<>>, contents |-> <<>>]

DigestCall(op, in, hashFile, outcome, error, value) ==
    [Call(op, in, "", hashFile, EmptyBlock, <<>>, outcome, error, value, FALSE)
        EXCEPT !.blocks = <<>>]

\* lines 293-305
createHashFromFile(inputFileName, outputFileName) ==
    LET input == Open(inputFileName)
        sunk == [fs EXCEPT ![outputFileName] = File(<<>>)]
    IN  /\ trace' = <<>>
        /\ UNCHANGED <<enc, bufs>>
        /\ IF ~input.exists
           THEN /\ call' = DigestCall("createHashFromFile", <<inputFileName>>,
                                      outputFileName, "exit", "open", FALSE)
                /\ fs' = sunk
                /\ made' = [made EXCEPT ![outputFileName] = NoMade]
           ELSE /\ call' = DigestCall("createHashFromFile", <<inputFileName>>,
                                      outputFileName, "returned", "", TRUE)
                /\ fs' = [sunk EXCEPT ![outputFileName] =
                             File(Sha(SHA512_DIGESTSIZE, input.data))]
                /\ made' = [made EXCEPT ![outputFileName] =
                               [by |-> "createHashFromFile",
                                files |-> <<inputFileName>>,
                                contents |-> <<input.data>>]]

\* lines 312-331: inputFileName is never opened
verifyHashFromFile(inputFileName, hashInputFileName) ==
    LET hashInput == Open(hashInputFileName)
        Result(outcome, error, value) ==
            call' = DigestCall("verifyHashFromFile", <<inputFileName>>,
                               hashInputFileName, outcome, error, value)
    IN  /\ trace' = <<>>
        /\ UNCHANGED <<fs, enc, bufs, made>>
        /\ IF ~hashInput.exists THEN Result("exit", "open", FALSE)
           ELSE IF HashVerified(hashInput.data) THEN Result("returned", "", TRUE)
           ELSE Result("exit", "HashVerificationFailed", FALSE)

RECURSIVE ReadFilesPrepending(_)
\* the files' bytes, each file put in front of those read before it
ReadFilesPrepending(inputFileNames) ==
    IF inputFileNames = <<>> THEN <<>>
    ELSE ReadFilesPrepending(Tail(inputFileNames)) \o Open(Head(inputFileNames)).data

RECURSIVE ReadFiles(_)
\* lines 339-357 and 379-398: the files' bytes, appended in the order given
ReadFiles(inputFileNames) ==
    IF inputFileNames = <<>> THEN <<>>
    ELSE Open(Head(inputFileNames)).data \o ReadFiles(Tail(inputFileNames))

AllOpen(inputFileNames) ==
    \A i \in 1..Len(inputFileNames) : Open(inputFileNames[i]).exists

\* lines 338-371
createHashFromFiles(inputFileNames, outputFileName) ==
    LET inputBytes == ReadFiles(inputFileNames)
    IN  /\ trace' = <<>>
        /\ UNCHANGED <<enc, bufs>>
        /\ IF ~AllOpen(inputFileNames)
           THEN /\ call' = DigestCall("createHashFromFiles", inputFileNames,
                                      outputFileName, "threw", "open", FALSE)
                /\ UNCHANGED <<fs, made>>
           ELSE /\ call' = DigestCall("createHashFromFiles", inputFileNames,
                                      outputFileName, "returned", "", TRUE)
                /\ fs' = [fs EXCEPT ![outputFileName] =
                             File(Sha(SHA512_DIGESTSIZE, inputBytes))]
                /\ made' = [made EXCEPT ![outputFileName] =
                               [by |-> "createHashFromFiles",
                                files |-> inputFileNames,
                                contents |-> [i \in 1..Len(inputFileNames) |->
                                                 Open(inputFileNames[i]).data]]]

\* lines 378-434
verifyHashFromFiles(inputFileNames, hashInputFileName) ==
    LET hashInput == Open(hashInputFileName)
        inputBytes == ReadFiles(inputFileNames) \o hashInput.data
        Result(outcome, error, value) ==
            call' = DigestCall("verifyHashFromFiles", inputFileNames,
                               hashInputFileName, outcome, error, value)
    IN  /\ trace' = <<>>
        /\ UNCHANGED <<fs, enc, bufs, made>>
        /\ IF ~AllOpen(inputFileNames) \/ ~hashInput.exists
           THEN Result("threw", "open", FALSE)
           ELSE IF HashVerified(inputBytes) THEN Result("returned", "", TRUE)
           ELSE Result("exit", "HashVerificationFailed", FALSE)

-----------------------------------------------------------------------------
(* Key agreement and key derivation, lines 35-76 *)

Parties == {"A", "B"}
Other(p) == IF p = "A" THEN "B" ELSE "A"

\* the toy group standing for secp256r1: the integers modulo GroupOrder
\* under addition, generated by Generator
GroupOrder == 5
Generator == 2
PublicOf(private) == (private * Generator) % GroupOrder

\* ECDH<ECP>::Domain::Agree: false when the peer's point is not a valid one
AgreeValid(otherPublicKey) ==
    /\ otherPublicKey.size = PublicKeyLength
    /\ otherPublicKey.val[1] \in 1..(GroupOrder - 1)
AgreedValue(privateKey, otherPublicKey) ==
    <<(privateKey.val[1] * otherPublicKey.val[1]) % GroupOrder>>

KeyCall(op, p, blocks, outcome, error, value, bufBefore) ==
    [Call(op, <<>>, "", "", EmptyBlock, <<>>, outcome, error, value, FALSE)
        EXCEPT !.party = p, !.blocks = blocks, !.bufBefore = bufBefore]

\* lines 35-43
generateDiffieHellmanParameters(p) ==
    \E private \in 1..(GroupOrder - 1) :
        /\ bufs' = [bufs EXCEPT ![p].publicKey = Block(PublicKeyLength, <<PublicOf(private)>>),
                                ![p].privateKey = Block(PrivateKeyLength, <<private>>)]
        /\ call' = KeyCall("generateDiffieHellmanParameters", p, <<>>, "returned", "", TRUE,
                            bufs[p].publicKey)
        /\ trace' = <<Prim("GenerateKeyPair")>>
        /\ UNCHANGED <<fs, enc, made>>

\* lines 48-65
diffieHellmanSharedSecretAgreement(p, otherPublicKey) ==
    LET privateKey == bufs[p].privateKey
        Threw(error) ==
            /\ call' = KeyCall("diffieHellmanSharedSecretAgreement", p,
                             <<otherPublicKey, privateKey>>, "threw", error,
                             FALSE, bufs[p].sharedSecret)
            /\ trace' = <<>>
            /\ UNCHANGED bufs
    IN  /\ UNCHANGED <<fs, enc, made>>
        /\ IF otherPublicKey.size = 0 THEN Threw("Other user's public key is empty!!!")
           ELSE IF privateKey.size = 0 THEN Threw("Private key is empty!!!")
           ELSE /\ trace' = <<Prim("Agree")>>
                /\ IF ~AgreeValid(otherPublicKey)
                   THEN /\ bufs' = [bufs EXCEPT ![p].sharedSecret =
                                       Block(AgreedValueLength, <<0>>)]
                        /\ call' = KeyCall("diffieHellmanSharedSecretAgreement", p,
                                           <<otherPublicKey, privateKey>>,
                                           "returned", "", FALSE,
                                           bufs[p].sharedSecret)
                   ELSE /\ bufs' = [bufs EXCEPT ![p].sharedSecret =
                                       Block(AgreedValueLength,
                                             AgreedValue(privateKey, otherPublicKey))]
                        /\ call' = KeyCall("diffieHellmanSharedSecretAgreement", p,
                                           <<otherPublicKey, privateKey>>,
                                           "returned", "", TRUE,
                                           bufs[p].sharedSecret)

\* lines 70-76
generateSymmetricKeyFromSharedSecret(p) ==
    LET sharedSecret == bufs[p].sharedSecret
    IN  /\ UNCHANGED <<fs, enc, made>>
        /\ IF sharedSecret.size = 0
           THEN /\ call' = KeyCall("generateSymmetricKeyFromSharedSecret", p,
                                   <<sharedSecret>>, "threw",
                                   "Shared secret is empty!!!", FALSE,
                                   bufs[p].key)
                /\ trace' = <<>>
                /\ UNCHANGED bufs
           ELSE /\ bufs' = [bufs EXCEPT ![p].key =
                               Block(SHA256_DIGESTSIZE,
                                     <<SHA256_DIGESTSIZE>> \o sharedSecret.val)]
                /\ call' = KeyCall("generateSymmetricKeyFromSharedSecret", p,
                                   <<sharedSecret>>, "returned", "", TRUE, bufs[p].key)
                /\ trace' = <<Prim("CalculateDigest")>>

-----------------------------------------------------------------------------
(* The callers: what the functions are given *)

NoBufs == [p \in Parties |-> [publicKey |-> EmptyBlock, privateKey |-> EmptyBlock,
                              sharedSecret |-> EmptyBlock, key |-> EmptyBlock]]

Keys == {Block(SHA256_DIGESTSIZE, <<1>>), Block(SHA256_DIGESTSIZE, <<2>>)}
Nonces == {[i \in 1..BLOCKSIZE |-> v] : v \in ByteVals}

\* caller buffers one byte short of, equal to and one byte beyond the block size
NonceBuffers == {[i \in 1..n |-> 0] : n \in (BLOCKSIZE - 1)..(BLOCKSIZE + 1)}

\* what an output file holds from an earlier run
OldContent == File(<<<<1>>>>)

Stored(n) == {NoFile} \cup {File(c) : c \in Contents(n)}

NoState ==
    /\ call = NoCall
    /\ trace = <<>>
    /\ enc = NoEnc
    /\ bufs = NoBufs
    /\ made = [f \in FileNames |-> NoMade]
    /\ calls = 0

\* one more call, while the run's budget lasts
Counted(limit) == calls < limit /\ calls' = calls + 1

(* Encryption and decryption of files *)

InitCipher ==
    /\ \E plain \in Stored(MaxLen), auth \in Stored(MaxAadLen) :
          fs = [f \in FileNames |->
                   IF f = "plain" THEN plain
                   ELSE IF f = "auth" THEN auth
                   ELSE IF f = "cipher" THEN OldContent ELSE NoFile]
    /\ NoState

Encrypt ==
    /\ Counted(MaxCipherCalls)
    /\ \E key \in Keys, ivBytes \in Nonces :
          encryptFile("plain", "auth", "cipher", key, ivBytes)

EncryptNoAuth ==
    /\ Counted(MaxCipherCalls)
    /\ \E key \in Keys, ivBytes \in Nonces :
          encryptFileNoAuth("plain", "cipher", key, ivBytes)

Decrypt ==
    /\ Counted(MaxCipherCalls)
    /\ \E key \in Keys, ivBytes \in Nonces :
          decryptFile("cipher", "auth", "out", key, ivBytes)

DecryptNoAuth ==
    /\ Counted(MaxCipherCalls)
    /\ \E key \in Keys, ivBytes \in Nonces :
          decryptFileNoAuth("cipher", "out", key, ivBytes)

Untouched == enc.done /\ fs["cipher"] = File(enc.output) /\ fs["auth"] = enc.auth

\* a byte with one bit flipped; a byte of a tag becomes a plain byte
Flipped(b) == IF Len(b) = 1 THEN <<Xor(b[1], 1, 8)>> ELSE <<0>>

\* somebody changes one byte of the encrypted file
TamperByte ==
    /\ Untouched
    /\ \E i \in 1..Len(enc.output) :
          fs' = [fs EXCEPT !["cipher"] = File([enc.output EXCEPT ![i] = Flipped(@)])]
    /\ UNCHANGED <<call, trace, enc, bufs, made, calls>>

\* somebody cuts the last byte off the encrypted file
Truncate ==
    /\ Untouched
    /\ fs' = [fs EXCEPT !["cipher"] = File(SubSeq(enc.output, 1, Len(enc.output) - 1))]
    /\ UNCHANGED <<call, trace, enc, bufs, made, calls>>

\* somebody replaces or removes the associated-data file
RewriteAuth ==
    /\ Untouched
    /\ \E auth \in Stored(MaxAadLen) :
          /\ auth # fs["auth"]
          /\ fs' = [fs EXCEPT !["auth"] = auth]
    /\ UNCHANGED <<call, trace, enc, bufs, made, calls>>

NextCipher ==
    \/ Encrypt \/ EncryptNoAuth \/ Decrypt \/ DecryptNoAuth
    \/ TamperByte \/ Truncate \/ RewriteAuth

SpecCipher == InitCipher /\ [][NextCipher]_vars

(* Digests of files *)

InitDigest ==
    /\ \E a \in Stored(MaxFileLen), b \in Stored(MaxFileLen) :
          fs = [f \in FileNames |->
                   IF f = "a" THEN a ELSE IF f = "b" THEN b ELSE NoFile]
    /\ NoState

FileLists == {<<"a", "b">>, <<"b", "a">>}
HashFiles == {"h1", "h2"}

CreateHash ==
    /\ Counted(MaxDigestCalls)
    /\ \E h \in HashFiles : createHashFromFile("a", h)

VerifyHash ==
    /\ Counted(MaxDigestCalls)
    /\ \E h \in HashFiles : verifyHashFromFile("a", h)

CreateHashes ==
    /\ Counted(MaxDigestCalls)
    /\ \E l \in FileLists, h \in HashFiles : createHashFromFiles(l, h)

VerifyHashes ==
    /\ Counted(MaxDigestCalls)
    /\ \E l \in FileLists, h \in HashFiles : verifyHashFromFiles(l, h)

\* somebody changes one byte of file a
MutateFile ==
    /\ fs["a"].exists
    /\ \E i \in 1..Len(fs["a"].data) :
          fs' = [fs EXCEPT !["a"].data[i] = Flipped(@)]
    /\ UNCHANGED <<call, trace, enc, bufs, made, calls>>

NextDigest == CreateHash \/ VerifyHash \/ CreateHashes \/ VerifyHashes \/ MutateFile

SpecDigest == InitDigest /\ [][NextDigest]_vars

(* Digests of several files, in either order *)

NextOrder == CreateHashes \/ VerifyHashes

SpecOrder == InitDigest /\ [][NextOrder]_vars

(* Key agreement, derivation and use *)

InitKeys ==
    /\ fs = [f \in FileNames |->
                IF f = "plain" THEN File(<<<<0>>, <<1>>>>)
                ELSE IF f = "cipher" THEN OldContent ELSE NoFile]
    /\ NoState

\* a point that is not on the curve
BadPoint == Block(PublicKeyLength, <<0>>)

Generate ==
    /\ Counted(MaxKeyCalls)
    /\ \E p \in Parties : generateDiffieHellmanParameters(p)

Agree ==
    /\ Counted(MaxKeyCalls)
    /\ \E p \in Parties :
          \E otherPublicKey \in {bufs[Other(p)].publicKey, BadPoint} :
              diffieHellmanSharedSecretAgreement(p, otherPublicKey)

Derive ==
    /\ Counted(MaxKeyCalls)
    /\ \E p \in Parties : generateSymmetricKeyFromSharedSecret(p)

EncryptWithKey ==
    /\ Counted(MaxKeyCalls)
    /\ \E ivBytes \in NonceBuffers :
          encryptFileNoAuth("plain", "cipher", bufs["A"].key, ivBytes)

DecryptWithKey ==
    /\ Counted(MaxKeyCalls)
    /\ \E ivBytes \in NonceBuffers :
          decryptFileNoAuth("cipher", "out", bufs["B"].key, ivBytes)

NextKeys == Generate \/ Agree \/ Derive \/ EncryptWithKey \/ DecryptWithKey

SpecKeys == InitKeys /\ [][NextKeys]_vars

-----------------------------------------------------------------------------
(* The properties *)

Decrypted == call.op = "decryptFile"
Ciphered == call.op \in {"encryptFile", "decryptFile"}

\* the associated data a file stands for: none when the file is missing
AadOf(file) == IF file.exists THEN file.data ELSE <<>>

\* the last call decrypted, with the key and the nonce of the encryption
SameKeyAndNonce ==
    /\ Decrypted
    /\ enc.done
    /\ call.key = enc.key
    /\ call.ivBytes = enc.ivBytes
    /\ Len(call.ivBytes) = BLOCKSIZE

\* ... and was given the very file that the encryption wrote
GivenEncrypted == SameKeyAndNonce /\ call.found[1] = File(enc.output)

Puts == SelectSeq(trace, LAMBDA o : o.op = "ChannelPut")

\* C1: decrypting what encryptFile wrote, with the same associated data, key
\* and nonce, returns and leaves the plaintext in the output file.
C1_RoundTrip ==
    (GivenEncrypted /\ call.authFound = enc.auth)
        => (call.outcome = "returned" /\ fs[call.out] = File(enc.plain))

\* The round trip of a plaintext of at least one byte with empty or no
\* associated data, which the code does achieve.
RoundTripPlain ==
    (GivenEncrypted /\ call.authFound = enc.auth
        /\ enc.plain # <<>> /\ AadOf(enc.auth) = <<>>)
        => (call.outcome = "returned" /\ fs[call.out] = File(enc.plain))

RoundTripPlainReached ==
    /\ GivenEncrypted /\ call.authFound = enc.auth
    /\ Len(enc.plain) = MaxLen /\ enc.auth = File(<<>>)
    /\ call.outcome = "returned"

\* C2: when bytes of the encrypted file or the associated data differ from
\* what the encryption wrote or used (same key, same nonce), decryptFile fails
\* and writes nothing to the output file.
C2_TamperDetected ==
    (/\ SameKeyAndNonce
     /\ call.found[1].exists
     /\ Len(call.found[1].data) = Len(enc.output)
     /\ \/ call.found[1].data # enc.output
        \/ AadOf(call.authFound) # AadOf(enc.auth))
        => (/\ call.outcome # "returned"
            /\ fs[call.out] = call.outBefore)

\* A changed byte of the ciphertext or of the tag alone is always detected.
TamperedBytesDetected ==
    (/\ SameKeyAndNonce
     /\ call.found[1].exists
     /\ Len(call.found[1].data) = Len(enc.output)
     /\ Len(enc.output) > MAC_SIZE
     /\ call.found[1].data # enc.output)
        => (/\ call.error = "HashVerificationFailed"
            /\ fs[call.out] = call.outBefore)

\* C3: decryptFile rejects its input for its length only when the length less
\* the tag size is negative; the MAC_SIZE bytes that encrypting the empty
\* plaintext yields decrypt to the empty plaintext.
C3_TruncatedOnlyWhenNegative ==
    /\ (Decrypted /\ call.error = "length")
          => Len(call.found[1].data) - MAC_SIZE < 0
    /\ (GivenEncrypted /\ call.authFound = enc.auth /\ enc.plain = <<>>
          /\ AadOf(enc.auth) = <<>>)
          => (/\ Len(enc.output) = MAC_SIZE
              /\ call.outcome = "returned"
              /\ fs[call.out] = File(<<>>))

\* C4: a missing associated-data file makes either function warn and go on
\* with no associated data, and what was encrypted with the file missing
\* decrypts with the file missing.
C4_MissingAadSymmetric ==
    /\ (Ciphered /\ ~call.authFound.exists /\ call.outcome = "returned")
          => (call.warned /\ ChannelData(trace, "AAD") = <<>>)
    /\ (GivenEncrypted /\ ~enc.auth.exists /\ ~call.authFound.exists)
          => (/\ call.outcome = "returned"
              /\ call.warned
              /\ fs[call.out] = File(enc.plain))

\* Whenever a call gets as far as the associated data and finds the file
\* missing, it warns and feeds nothing to the AAD channel.
MissingAadWarns ==
    (Ciphered /\ ~call.authFound.exists
        /\ call.error \in {"", "HashVerificationFailed"})
        => (call.warned /\ ChannelData(trace, "AAD") = <<>>)

\* C5: with the input file missing, encryptFile and decryptFile abort and the
\* output file is as it was before the call.
C5_NoOutputOnMissingInput ==
    (Ciphered /\ ValidKeyLength(call.key.size) /\ ~call.found[1].exists)
        => (call.outcome = "exit" /\ fs[call.out] = call.outBefore)

\* C6: verifyHashFromFile and verifyHashFromFiles return to their caller,
\* whether the digest matches or not.
C6_VerifyReturns ==
    (/\ call.op \in {"verifyHashFromFile", "verifyHashFromFiles"}
     /\ \A i \in 1..Len(call.found) : call.found[i].exists
     /\ call.outBefore.exists)
        => call.outcome = "returned"

\* C7: verifyHashFromFile(A, H), with H written by createHashFromFile(A, H),
\* is true while A is as it was then and is not true once a byte of A differs.
C7_SingleFileVerify ==
    (/\ call.op = "verifyHashFromFile"
     /\ call.found[1].exists
     /\ made[call.out].by = "createHashFromFile"
     /\ made[call.out].files = call.in)
        => ((call.outcome = "returned" /\ call.value)
               <=> call.found[1].data = made[call.out].contents[1])

\* the digest files h1 and h2 were written from the files a, b and b, a
BothOrders ==
    /\ made["h1"].by = "createHashFromFiles"
    /\ made["h2"].by = "createHashFromFiles"
    /\ made["h1"].files = <<"a", "b">>
    /\ made["h2"].files = <<"b", "a">>

Joined(contents) == contents[1] \o contents[2]

DigestOfJoined ==
    \A h \in {"h1", "h2"} :
        (made[h].by = "createHashFromFiles" /\ Len(made[h].files) = 2)
            => fs[h] = File(Sha(SHA512_DIGESTSIZE, Joined(made[h].contents)))

\* C8: createHashFromFiles writes the digest of the files' bytes joined in the
\* order given, and the digests of a, b and of b, a differ when a and b differ.
C8_OrderSensitive ==
    /\ DigestOfJoined
    /\ (BothOrders /\ fs["a"] # fs["b"]) => fs["h1"] # fs["h2"]

\* C8, amended: ... and the digests of a, b and of b, a differ exactly when
\* the bytes of a followed by those of b differ from those of b followed by a.
C8_OrderSensitiveWhenJoinsDiffer ==
    /\ DigestOfJoined
    /\ BothOrders
          => ((fs["h1"] # fs["h2"])
                 <=> (fs["a"].data \o fs["b"].data # fs["b"].data \o fs["a"].data))

C8_Reached ==
    /\ BothOrders
    /\ Len(fs["a"].data) = MaxFileLen
    /\ fs["a"].data \o fs["b"].data # fs["b"].data \o fs["a"].data
    /\ fs["h1"] # fs["h2"]

\* C9: a call given an empty key or secret, or a nonce that is not BLOCKSIZE
\* bytes long, throws before any cryptographic operation and leaves the output
\* file and the output buffer as they were.
C9_PreconditionsRejected ==
    (\/ \E i \in 1..Len(call.blocks) : call.blocks[i].size = 0
     \/ Ciphered /\ Len(call.ivBytes) # BLOCKSIZE)
        => (/\ call.outcome = "threw"
            /\ trace = <<>>
            /\ Open(call.out) = call.outBefore
            /\ call.op = "diffieHellmanSharedSecretAgreement"
                  => bufs[call.party].sharedSecret = call.bufBefore
            /\ call.op = "generateSymmetricKeyFromSharedSecret"
                  => bufs[call.party].key = call.bufBefore)

\* An empty key or secret is always rejected so.
EmptyBlocksRejected ==
    (\E i \in 1..Len(call.blocks) : call.blocks[i].size = 0)
        => (/\ call.outcome = "threw"
            /\ trace = <<>>
            /\ Open(call.out) = call.outBefore
            /\ call.op = "diffieHellmanSharedSecretAgreement"
                  => bufs[call.party].sharedSecret = call.bufBefore
            /\ call.op = "generateSymmetricKeyFromSharedSecret"
                  => bufs[call.party].key = call.bufBefore)

\* everything on the AAD channel comes before the first byte on the default one
AadFirst ==
    \A i, j \in 1..Len(trace) :
        (trace[i].channel = "AAD" /\ trace[j] = Put("DEFAULT", trace[j].data))
            => i < j

\* C10: encryptFile feeds the associated data and ends the AAD channel before
\* it feeds the plaintext; decryptFile feeds the tag, then the bytes of the
\* associated-data file, then the ciphertext, the tag being the last MAC_SIZE
\* bytes of the input and the ciphertext the bytes before them, as encryptFile
\* writes them.
C10_ChannelOrder ==
    /\ (call.op = "encryptFile" /\ call.outcome = "returned")
          => (/\ AadFirst
              /\ ChannelData(trace, "AAD") = AadOf(call.authFound)
              /\ call.authFound.exists
                    => \E i \in 1..Len(trace) : trace[i] = End("AAD")
              /\ Len(enc.output) = Len(enc.plain) + MAC_SIZE)
    /\ (Decrypted /\ Puts # <<>>)
          => LET data == call.found[1].data
                 cut == Len(data) - MAC_SIZE
             IN  /\ Puts[1] = Put("DEFAULT", SubSeq(data, cut + 1, Len(data)))
                 /\ Puts[Len(Puts)] = Put("DEFAULT", SubSeq(data, 1, cut))
                 /\ Len(Puts) = IF call.authFound.exists THEN 3 ELSE 2
                 /\ call.authFound.exists
                       => Puts[2] = Put("AAD", call.authFound.data)

\* The order alone, whatever the bytes fed to the AAD channel.
FeedOrder ==
    /\ (call.op = "encryptFile" /\ call.outcome = "returned") => AadFirst
    /\ (Decrypted /\ Puts # <<>>)
          => (/\ Puts[1].channel = "DEFAULT"
              /\ Puts[Len(Puts)].channel = "DEFAULT"
              /\ \A i \in 2..(Len(Puts) - 1) : Puts[i].channel = "AAD")

====
